---- MODULE Spec2Model ----
(* A model of gulp-cf-deploy's deployment engine (src/src/deploy.ts): one    *)
(* file passing through the through2 handler, the remote CloudFormation      *)
(* service as the source of every response.  Each action is one atomic       *)
(* segment of the async function `deploy`, from the arrival of an awaited    *)
(* response (or timer) to the next await or to the call of `done`.           *)
EXTENDS Integers, Sequences, FiniteSets, TLC

(***************************************************************************)
(* Bounds of the model                                                     *)
(***************************************************************************)
\* backoff sleeps one deployment may make, over both of its poll loops
MaxSleeps == 4
\* events the remote service may add to the event log during one deployment
MaxEvents == 1
\* length of the event logs retrieveStackEvents is applied to on its own
MaxLogLen == 4
\* backoff sleeps of the deployment whose termination is checked
MaxLiveSleeps == 2

(***************************************************************************)
(* Strings with structure.  A status code is the sequence of its words     *)
(* and underscores, so that lodash's endsWith / startsWith / includes are   *)
(* computed on it and not assumed.                                         *)
(***************************************************************************)
RECURSIVE Code(_)
Code(words) ==
  IF Len(words) <= 1 THEN words
  ELSE <<Head(words), "_">> \o Code(Tail(words))

endsWith(s, target) ==
  /\ Len(s) >= Len(target)
  /\ SubSeq(s, Len(s) - Len(target) + 1, Len(s)) = target

startsWith(s, target) ==
  /\ Len(s) >= Len(target)
  /\ SubSeq(s, 1, Len(target)) = target

includes(s, target) ==
  \E i \in 1..(Len(s) - Len(target) + 1) :
     SubSeq(s, i, i + Len(target) - 1) = target

MAX_REPORT_SECONDS == 15

Min(a, b) == IF a <= b THEN a ELSE b

(***************************************************************************)
(* The remote service's vocabulary used as inputs                          *)
(***************************************************************************)
CREATE_IN_PROGRESS == Code(<<"CREATE", "IN", "PROGRESS">>)
UPDATE_IN_PROGRESS == Code(<<"UPDATE", "IN", "PROGRESS">>)

CREATE_COMPLETE == Code(<<"CREATE", "COMPLETE">>)
UPDATE_COMPLETE == Code(<<"UPDATE", "COMPLETE">>)
CREATE_FAILED == Code(<<"CREATE", "FAILED">>)
UPDATE_ROLLBACK_COMPLETE == Code(<<"UPDATE", "ROLLBACK", "COMPLETE">>)

Statuses ==
  { CREATE_IN_PROGRESS,
    CREATE_COMPLETE,
    CREATE_FAILED,
    Code(<<"ROLLBACK", "IN", "PROGRESS">>),
    Code(<<"ROLLBACK", "COMPLETE">>),
    Code(<<"DELETE", "COMPLETE">>),
    Code(<<"UPDATE", "COMPLETE", "CLEANUP", "IN", "PROGRESS">>),
    UPDATE_COMPLETE,
    Code(<<"UPDATE", "ROLLBACK", "COMPLETE", "CLEANUP", "IN", "PROGRESS">>),
    UPDATE_ROLLBACK_COMPLETE,
    Code(<<"IMPORT", "COMPLETE">>) }

\* the identifier of the stack the lookup finds, and of a stack just created
ExistingStackId == "arn:stack/1"
CreatedStackId == "arn:stack/2"

\* StackStatusReason: "" stands for an absent (falsy) reason
Reasons == {"", "Resource creation failed"}

\* Outputs: a sequence of <<OutputKey, OutputValue>>
OutputLists == { <<>>, << <<"Foo", "1">>, <<"Bar", "2">> >> }

NoStack ==
  [StackId |-> "", StackStatus |-> <<>>, StackStatusReason |-> "",
   Outputs |-> <<>>]

\* the answers to a DescribeStacks of stack sid: outputs on a completed create
\* or update, a reason on a failed create, a rolled-back create or update
Stacks(sid) ==
  { st \in [StackId : {sid}, StackStatus : Statuses,
            StackStatusReason : Reasons, Outputs : OutputLists] :
      /\ st.Outputs # <<>> => st.StackStatus \in {CREATE_COMPLETE, UPDATE_COMPLETE}
      /\ st.StackStatusReason # "" =>
            st.StackStatus \in {CREATE_FAILED, UPDATE_ROLLBACK_COMPLETE,
                                Code(<<"ROLLBACK", "COMPLETE">>)} }

NoUpdatesMessage == "No updates are to be performed."

ValidationError(message) == [code |-> "ValidationError", message |-> message]
Throttling == [code |-> "Throttling", message |-> "Rate exceeded"]

\* the errors a command may be answered with
Errors(op) ==
  IF op = "Lookup"
  THEN { ValidationError("Stack with id web does not exist"),
         ValidationError("1 validation error detected"),
         Throttling }
  ELSE IF op = "Submit"
  THEN { ValidationError(NoUpdatesMessage),
         ValidationError("Template format error"),
         Throttling }
  ELSE { ValidationError(NoUpdatesMessage), Throttling }

(***************************************************************************)
(* Status classifier and event predicates                                  *)
(***************************************************************************)
isInProgress(st) == endsWith(st.StackStatus, <<"_", "IN", "_", "PROGRESS">>)

isCleanupInProgress(st) ==
  endsWith(st.StackStatus, <<"_", "CLEANUP", "_", "IN", "_", "PROGRESS">>)

isInitialStackEvent(event, sid) ==
  /\ event.PhysicalResourceId = sid
  /\ \E s \in {CREATE_IN_PROGRESS, UPDATE_IN_PROGRESS} : s = event.ResourceStatus

isFailedStackEvent(event) == endsWith(event.ResourceStatus, <<"FAILED">>)

\* mutant of stackStateIndicatesFailure: a rollback not taken for a failure
stackStateIndicatesFailure_NoRollback(st) ==
  \E s \in {"DELETE", "FAILED"} : includes(st.StackStatus, <<s>>)

stackStateIndicatesFailure(st) ==
  \E s \in {"ROLLBACK", "DELETE", "FAILED"} : includes(st.StackStatus, <<s>>)

\* mutant of isDeploySuccessful: a rolled-back update taken for a success
isDeploySuccessful_IgnoresRollback(st) ==
  /\ includes(st.StackStatus, <<"COMPLETE">>)
  /\ \E s \in {"CREATE", "UPDATE"} : startsWith(st.StackStatus, <<s>>)

isDeploySuccessful(st) ==
  /\ includes(st.StackStatus, <<"COMPLETE">>)
  /\ ~includes(st.StackStatus, <<"ROLLBACK">>)
  /\ \E s \in {"CREATE", "UPDATE"} : startsWith(st.StackStatus, <<s>>)

\* lodash fromPairs over the ordered outputs: a later pair with the same key
\* overwrites an earlier one
RECURSIVE fromPairs(_)
fromPairs(pairs) ==
  IF pairs = <<>> THEN <<>>
  ELSE LET init == fromPairs(SubSeq(pairs, 1, Len(pairs) - 1))
           last == pairs[Len(pairs)]
       IN  [k \in (DOMAIN init) \cup {last[1]} |->
              IF k = last[1] THEN last[2] ELSE init[k]]

simplifiedOutput(st) == fromPairs(st.Outputs)

(***************************************************************************)
(* Inputs of one run: the file, the task's arguments                       *)
(***************************************************************************)
\* file.contents of a buffered file, and what toString(enc) makes of it
TemplateContents == [type |-> "Buffer", text |-> "Resources: {Bucket}"]

toString(contents) == contents.text

Files ==
  { [kind |-> "buffer", stem |-> "resources", contents |-> TemplateContents],
    [kind |-> "null", stem |-> "resources", contents |-> TemplateContents],
    [kind |-> "stream", stem |-> "resources", contents |-> TemplateContents] }

\* vinyl's file.isNull() and file.isBuffer()
isNull(f) == f.kind = "null"

\* mutant of isBuffer: every file taken for a buffered one
isBuffer_Always(f) == TRUE

isBuffer(f) == f.kind = "buffer"

\* A JavaScript object is a function of its own keys.  Undefined is what the
\* read of a key the object does not have gives.
Undefined == "undefined"

EmptyObject == <<>>

Get(obj, key) == IF key \in DOMAIN obj THEN obj[key] ELSE Undefined

\* {...a, ...b}: the keys of both, b's value where both have the key
spread(a, b) ==
  [k \in (DOMAIN a) \cup (DOMAIN b) |-> IF k \in DOMAIN b THEN b[k] ELSE a[k]]

Parameter(key, value) == [ParameterKey |-> key, ParameterValue |-> value]

\* String(param) of a ParameterValue: a string is itself, a number its
\* decimal form
parameterValue(param) ==
  IF param.type = "string" THEN param.value ELSE ToString(param.value)

\* the second and third argument of the task: a name, nothing, or an options
\* object with and without StackName; the hash as its entries in order
TaskArguments ==
  { [stackNameOrOptions |-> [type |-> "string", StackName |-> "web"],
     parameters |-> <<>>],
    [stackNameOrOptions |-> [type |-> "undefined"],
     parameters |-> << <<"Foo", [type |-> "number", value |-> 123]>> >>],
    [stackNameOrOptions |->
       [type |-> "object",
        options |-> [StackName |-> "web", OnFailure |-> "ROLLBACK",
                     Parameters |-> << Parameter("X", "9") >>,
                     TemplateBody |-> "Resources: {Stale}"]],
     parameters |-> << <<"A", [type |-> "number", value |-> 1]>>,
                       <<"B", [type |-> "string", value |-> "2"]>> >>],
    [stackNameOrOptions |->
       [type |-> "object",
        options |-> [Parameters |-> << Parameter("X", "9") >>]],
     parameters |-> <<>>] }

(***************************************************************************)
(* Stack events.  Operation is not a field of the remote record: it tags   *)
(* the operation an event was written by ("prior" or "current"), as its    *)
(* timestamp does in the remote log.                                        *)
(***************************************************************************)
Event(lid, status, reason, pid, operation) ==
  [LogicalResourceId |-> lid, ResourceStatus |-> status,
   ResourceStatusReason |-> reason, PhysicalResourceId |-> pid,
   Operation |-> operation]

\* the events the current operation may write, in any order and number
CurrentEvents(sid, name, upd) ==
  { Event("r1", CREATE_IN_PROGRESS, "", "p1", "current"),
    Event("r1", CREATE_FAILED, "Limit exceeded", "p1", "current"),
    Event("r2", Code(<<"DELETE", "FAILED">>), "", "p2", "current"),
    Event(name, IF upd THEN UPDATE_IN_PROGRESS ELSE CREATE_IN_PROGRESS,
          "User Initiated", sid, "current"),
    Event(name, IF upd THEN Code(<<"UPDATE", "FAILED">>) ELSE CREATE_FAILED,
          "Resource creation failed", sid, "current") }

\* the log a stack holds when the operation is accepted (newest first): an
\* existing stack holds the events of the operation that made it
PriorLog(sid, name, upd) ==
  IF upd
  THEN << Event("r1", CREATE_COMPLETE, "", "p1", "prior"),
          Event(name, CREATE_IN_PROGRESS, "User Initiated", sid, "prior") >>
  ELSE <<>>

RECURSIVE CountCurrent(_)
CountCurrent(events) ==
  IF events = <<>> THEN 0
  ELSE (IF Head(events).Operation = "current" THEN 1 ELSE 0)
       + CountCurrent(Tail(events))

(***************************************************************************)
(* State                                                                   *)
(***************************************************************************)
VARIABLES
  file,                 \* the vinyl file handed to the handler
  stackNameOrOptions,   \* the task's second argument
  parameters,           \* the task's third argument
  pc,                   \* the await the deployment is suspended at
  initialState,         \* deploy: initialState
  updating,             \* deploy: updating
  resultState,          \* deploy: resultState
  skipped,              \* deploy: skipped
  StackId,              \* completedState: StackId
  reportEvents,         \* completedState: reportEvents
  waitForCleanup,       \* completedState: waitForCleanup
  haveReportedFailures, \* completedState: haveReportedFailures
  reportedLogicalIds,   \* completedState: reportedLogicalIds
  state,                \* completedState: state
  delaySeconds,         \* completedState: delaySeconds
  caller,               \* the call of completedState that is running
  sleeps,               \* backoff sleeps made so far
  timeout,              \* seconds of the last setTimeout of the loop, 0: none
  stackEvents,          \* completedState: stackEvents
  log,                  \* the lines written with fancy-log, in order
  calls,                \* the commands sent to the remote service, in order
  outcome,              \* the arguments `done` was called with
  answers,              \* the answers of the remote service to calls, in order
  logFailuresRuns,      \* calls of logFailures made so far
  remoteEvents          \* the remote service's event log, newest first

loopVars ==
  <<StackId, reportEvents, waitForCleanup, haveReportedFailures,
    reportedLogicalIds, state, delaySeconds, caller, sleeps, timeout,
    stackEvents>>

deployVars == <<initialState, updating, resultState, skipped>>

inputVars == <<file, stackNameOrOptions, parameters>>

vars ==
  <<inputVars, pc, deployVars, loopVars, log, calls, outcome, answers,
    logFailuresRuns, remoteEvents>>

NoOutcome == [kind |-> "none"]

stackOptions ==
  IF stackNameOrOptions.type = "string"
  THEN [StackName |-> stackNameOrOptions.StackName]
  ELSE IF stackNameOrOptions.type = "undefined"
  THEN [StackName |-> file.stem]
  ELSE stackNameOrOptions.options

stackName == Get(stackOptions, "StackName")

\* error(err): a PluginError of plugin 'cf-deploy' around a message (a record
\* with the message alone) or an error thrown by the client
error(err) == [kind |-> "error", plugin |-> "cf-deploy", err |-> err]

Ok == [code |-> "ok", message |-> ""]

\* the state the handler is called in, `used` of the MaxSleeps sleeps taken
\* as made already
InitAt(used) ==
  /\ file \in Files
  /\ \E args \in TaskArguments :
       /\ stackNameOrOptions = args.stackNameOrOptions
       /\ parameters = args.parameters
  /\ pc = "start"
  /\ initialState = NoStack
  /\ updating = FALSE
  /\ resultState = NoStack
  /\ skipped = FALSE
  /\ StackId = ""
  /\ reportEvents = FALSE
  /\ waitForCleanup = FALSE
  /\ haveReportedFailures = FALSE
  /\ reportedLogicalIds = <<>>
  /\ state = NoStack
  /\ delaySeconds = 0
  /\ caller = "none"
  /\ sleeps = used
  /\ timeout = 0
  /\ stackEvents = <<>>
  /\ log = <<>>
  /\ calls = <<>>
  /\ outcome = NoOutcome
  /\ answers = <<>>
  /\ logFailuresRuns = 0
  /\ remoteEvents = <<>>

Init == InitAt(0)


(***************************************************************************)
(* Log lines and remote commands                                           *)
(***************************************************************************)
WaitingLine == [kind |-> "waiting for previous operation to complete"]
StartingLine == [kind |-> "starting deployment"]
CreatingLine == [kind |-> "creating new stack"]
ProgressLine(lid, what) == [kind |-> "progress", id |-> lid, what |-> what]
FailureLine(e) ==
  [kind |-> "failure", id |-> e.LogicalResourceId, status |-> e.ResourceStatus,
   text |-> IF e.ResourceStatusReason # "" THEN <<e.ResourceStatusReason>>
            ELSE IF e.ResourceStatus # <<>> THEN e.ResourceStatus
            ELSE <<"<unknown>">>]
UrlLine(sid) == [kind |-> "url", stackId |-> sid]
\* the status line: of its text, the delay announced (0 when none is)
StatusLine(st, isCompleted, delay) ==
  [kind |-> "status", next |-> IF isCompleted THEN 0 ELSE delay]

DescribeStacksCommand(key) == [op |-> "DescribeStacks", StackName |-> key]
\* mutant of DescribeStackEventsCommand: keyed by the stack's name
DescribeStackEventsCommand_ByName(key) ==
  [op |-> "DescribeStackEvents", StackName |-> stackName]

DescribeStackEventsCommand(key) == [op |-> "DescribeStackEvents", StackName |-> key]
CreateStackCommand(params) == [op |-> "CreateStack", input |-> params]
UpdateStackCommand(params) == [op |-> "UpdateStack", input |-> params]

(***************************************************************************)
(* Event tracker                                                           *)
(***************************************************************************)
RECURSIVE takeWhileNotInitial(_, _)
takeWhileNotInitial(events, sid) ==
  IF events = <<>> \/ isInitialStackEvent(Head(events), sid) THEN <<>>
  ELSE <<Head(events)>> \o takeWhileNotInitial(Tail(events), sid)

\* mutant of reverse: the order kept
reverse_Kept(s) == s

RECURSIVE reverse(_)
reverse(s) == IF s = <<>> THEN <<>> ELSE reverse(Tail(s)) \o <<Head(s)>>

\* what retrieveStackEvents makes of the log the remote service returned
retrieveStackEvents(events, sid) == reverse(takeWhileNotInitial(events, sid))

RECURSIVE logFailures(_)
logFailures(evts) ==
  IF evts = <<>> THEN <<>>
  ELSE (IF isFailedStackEvent(Head(evts))
        THEN <<FailureLine(Head(evts))>> ELSE <<>>)
       \o logFailures(Tail(evts))

\* mutant of inList: an id is never found in the list
inList_Never(list, x) == FALSE

inList(list, x) == \E i \in 1..Len(list) : list[i] = x

\* the body of the forEach over the filtered events: the lines written and
\* the list of reported ids afterwards
RECURSIVE reportProgress(_, _, _)
reportProgress(evts, sid, reported) ==
  IF evts = <<>> THEN [lines |-> <<>>, reported |-> reported]
  ELSE
    LET e == Head(evts)
        selected == e.LogicalResourceId # "" /\ e.PhysicalResourceId # sid
        fresh == selected /\ ~inList(reported, e.LogicalResourceId)
        line ==
          IF ~fresh THEN <<>>
          ELSE IF startsWith(e.ResourceStatus, <<"CREATE">>)
               THEN <<ProgressLine(e.LogicalResourceId, "creating")>>
          ELSE IF startsWith(e.ResourceStatus, <<"UPDATE">>)
               THEN <<ProgressLine(e.LogicalResourceId, "updating")>>
          ELSE IF startsWith(e.ResourceStatus, <<"DELETE">>)
               THEN <<ProgressLine(e.LogicalResourceId, "deleting")>>
          ELSE <<>>
        rest == reportProgress(Tail(evts), sid,
                  IF fresh THEN Append(reported, e.LogicalResourceId)
                  ELSE reported)
    IN  [lines |-> line \o rest.lines, reported |-> rest.reported]

\* the failure report of one tick: the lines written, or none
\* mutants of shouldReportFailures: only a FAILED status reported; the flag
\* not read; the report held back until the stack has settled
shouldReportFailures_OnlyFailed(reportedBefore, st) ==
  ~reportedBefore /\ includes(st.StackStatus, <<"FAILED">>)
shouldReportFailures_EveryTick(reportedBefore, st) ==
  stackStateIndicatesFailure(st)
shouldReportFailures_WhenSettled(reportedBefore, st) ==
  ~reportedBefore /\ stackStateIndicatesFailure(st) /\ ~isInProgress(st)

shouldReportFailures(reportedBefore, st) ==
  ~reportedBefore /\ stackStateIndicatesFailure(st)

failureReport(evts, sid) == logFailures(evts) \o <<UrlLine(sid)>>

(***************************************************************************)
(* Poll loop                                                               *)
(***************************************************************************)
\* mutants of completed: the cleanup exit taken whatever waitForCleanup is;
\* the cleanup exit never taken; no exit at all
completed_AnyCleanup(st, wfc) == ~isInProgress(st) \/ isCleanupInProgress(st)
completed_NoCleanupExit(st, wfc) == ~isInProgress(st)

completed_Never(st, wfc) == FALSE

completed(st, wfc) == ~isInProgress(st) \/ (~wfc /\ isCleanupInProgress(st))

\* mutant of nextDelay: the delay doubled without the cap
nextDelay_Uncapped(delay) == delay * 2

nextDelay(delay) == Min(delay * 2, MAX_REPORT_SECONDS)

InitialDelaySeconds == 2

\* the sequences over S of length at most n
RECURSIVE SeqsUpTo(_, _)
SeqsUpTo(S, n) ==
  IF n <= 0 THEN { <<>> }
  ELSE LET shorter == SeqsUpTo(S, n - 1)
       IN  shorter \cup { <<x>> \o t : x \in S, t \in shorter }

\* the log the remote service returns to a DescribeStackEvents: the log it
\* held, with the events the operation wrote since put in front
NewerLogs(sid) ==
  { batch \o remoteEvents :
      batch \in SeqsUpTo(CurrentEvents(sid, stackName, updating),
                         MaxEvents - CountCurrent(remoteEvents)) }

(***************************************************************************)
(* Orchestrator: the segments of `deploy` between two awaits                *)
(***************************************************************************)
DeploymentFailed(rs) ==
  error([message |-> "Deploying failed", stack |-> stackName,
         detail |-> IF rs.StackStatusReason # "" THEN <<rs.StackStatusReason>>
                    ELSE rs.StackStatus])

NotBuffered ==
  error([message |-> "Can only handle buffered files, pipe through vinyl-buffer beforehand"])

Success(rs) == [kind |-> "file", extname |-> "json", data |-> simplifiedOutput(rs)]

\* lines 262-276, entered with the result state
Classify(rs, sk, lg) ==
  /\ resultState' = rs
  /\ skipped' = sk
  /\ log' = lg
  /\ IF ~sk /\ ~isDeploySuccessful(rs)
     THEN IF endsWith(rs.StackStatus, <<"_", "FAILED">>)
          THEN /\ calls' = Append(calls, DescribeStackEventsCommand(rs.StackId))
               /\ pc' = "finalEvents"
               /\ outcome' = outcome
          ELSE /\ calls' = calls
               /\ pc' = "done"
               /\ outcome' = DeploymentFailed(rs)
     ELSE /\ calls' = calls
          /\ pc' = "done"
          /\ outcome' = Success(rs)

\* mutant of isNoUpdates: the flag read the wrong way round
isNoUpdates_WhenCreating(e) ==
  ~updating /\ e.code = "ValidationError" /\ e.message = NoUpdatesMessage

isNoUpdates(e) ==
  updating /\ e.code = "ValidationError" /\ e.message = NoUpdatesMessage

\* lines 249-261 and 279-287: an error thrown inside the try block
Catch(e, lg) ==
  IF isNoUpdates(e)
  THEN Classify(initialState, TRUE, lg)
  ELSE /\ pc' = "done"
       /\ outcome' = error(e)
       /\ log' = lg
       /\ UNCHANGED <<resultState, skipped, calls>>

\* mutant of isUpdating: an update whatever the lookup found
isUpdating_Always(init) == TRUE

isUpdating(init) == init # NoStack

buildParameters ==
  (IF "Parameters" \in DOMAIN stackOptions THEN stackOptions["Parameters"]
   ELSE <<>>)
  \o [i \in 1..Len(parameters) |->
        Parameter(parameters[i][1], parameterValue(parameters[i][2]))]

\* mutant of deployParams: the caller's options spread last
deployParams_OptionsLast(upd) ==
  spread(spread(spread(IF upd THEN EmptyObject ELSE [OnFailure |-> "DELETE"],
                       [Parameters |-> buildParameters]),
                [TemplateBody |-> toString(file.contents)]),
         stackOptions)

deployParams(upd) ==
  spread(spread(spread(IF upd THEN EmptyObject ELSE [OnFailure |-> "DELETE"],
                       stackOptions),
                [Parameters |-> buildParameters]),
         [TemplateBody |-> toString(file.contents)])

\* lines 232-243, entered with the initial state
Submit(init, lg) ==
  /\ initialState' = init
  /\ updating' = isUpdating(init)
  /\ log' = lg
  /\ calls' = Append(calls,
                IF isUpdating(init) THEN UpdateStackCommand(deployParams(TRUE))
                ELSE CreateStackCommand(deployParams(FALSE)))
  /\ pc' = "submit"

\* the options of the two calls of completedState (lines 223-226, 245-248)
\* mutant of PreviousLoopOptions: the wait for a previous operation reports
PreviousLoopOptions_Reporting == [reportEvents |-> TRUE, waitForCleanup |-> TRUE]

\* mutant of PreviousLoopOptions: the wait returns in a cleanup phase
PreviousLoopOptions_NoCleanupWait ==
  [reportEvents |-> FALSE, waitForCleanup |-> FALSE]

PreviousLoopOptions == [reportEvents |-> FALSE, waitForCleanup |-> TRUE]

DeploymentLoopOptions == [reportEvents |-> TRUE, waitForCleanup |-> FALSE]

\* lines 148-155: a call of completedState, up to its first await
EnterLoop(sid, re, wfc, from) ==
  /\ StackId' = sid
  /\ reportEvents' = re
  /\ waitForCleanup' = wfc
  /\ caller' = from
  /\ haveReportedFailures' = FALSE
  /\ reportedLogicalIds' = <<>>
  /\ state' = NoStack
  /\ delaySeconds' = InitialDelaySeconds
  /\ sleeps' = sleeps
  /\ timeout' = 0
  /\ stackEvents' = <<>>
  /\ calls' = Append(calls, DescribeStacksCommand(sid))
  /\ pc' = "describe"

\* completedState returns st to its caller
Return(st, lg) ==
  IF caller = "previous"
  THEN /\ Submit(st, Append(lg, StartingLine))
       /\ UNCHANGED <<resultState, skipped, outcome>>
  ELSE /\ Classify(st, FALSE, lg)
       /\ UNCHANGED <<initialState, updating>>

\* lines 194-203: the status line, then return or setTimeout
TickEnd(st, lg) ==
  LET isCompleted == completed(st, waitForCleanup)
      lg2 == Append(lg, StatusLine(st, isCompleted, delaySeconds))
  IN  IF isCompleted
      THEN /\ Return(st, lg2)
           /\ timeout' = timeout
      ELSE /\ pc' = "sleep"
           /\ timeout' = delaySeconds
           /\ log' = lg2
           /\ UNCHANGED <<deployVars, calls, outcome>>


(***************************************************************************)
(* Actions                                                                 *)
(***************************************************************************)
\* lines 83-105 and 208-212: the handler is called with the file
Start ==
  /\ pc = "start"
  /\ IF isNull(file)
     THEN /\ pc' = "done"
          /\ outcome' = [kind |-> "file", extname |-> "", data |-> <<>>]
          /\ calls' = calls
     ELSE IF ~isBuffer(file)
     THEN /\ pc' = "done"
          /\ outcome' = NotBuffered
          /\ calls' = calls
     ELSE /\ pc' = "lookup"
          /\ outcome' = outcome
          /\ calls' = Append(calls, DescribeStacksCommand(stackName))
  /\ UNCHANGED <<inputVars, deployVars, loopVars, log, answers,
                 logFailuresRuns, remoteEvents>>

\* lines 213, 219-228, 232-243: the lookup by name finds a stack
LookupFound ==
  /\ pc = "lookup"
  /\ \E st \in Stacks(ExistingStackId) :
       IF isInProgress(st)
       THEN /\ initialState' = st
            /\ log' = Append(log, WaitingLine)
            /\ EnterLoop(st.StackId, PreviousLoopOptions.reportEvents,
                         PreviousLoopOptions.waitForCleanup, "previous")
            /\ UNCHANGED <<updating, resultState, skipped, outcome>>
       ELSE /\ Submit(st, log)
            /\ UNCHANGED <<resultState, skipped, outcome, loopVars>>
  /\ answers' = Append(answers, Ok)
  /\ UNCHANGED <<inputVars, logFailuresRuns, remoteEvents>>

\* lines 214-218, 229-243: the lookup by name fails
LookupError ==
  /\ pc = "lookup"
  /\ \E e \in Errors("Lookup") :
       /\ answers' = Append(answers, e)
       /\ IF e.code # "ValidationError"
          THEN /\ pc' = "done"
               /\ outcome' = error(e)
               /\ UNCHANGED <<deployVars, log, calls>>
          ELSE /\ Submit(NoStack, Append(log, CreatingLine))
               /\ UNCHANGED <<resultState, skipped, outcome>>
  /\ UNCHANGED <<inputVars, loopVars, logFailuresRuns, remoteEvents>>

\* lines 243-248: the create or update is accepted
SubmitOk ==
  /\ pc = "submit"
  /\ \E sid \in {IF updating THEN initialState.StackId ELSE CreatedStackId} :
       /\ EnterLoop(sid, DeploymentLoopOptions.reportEvents,
                    DeploymentLoopOptions.waitForCleanup, "deployment")
       /\ remoteEvents' = PriorLog(sid, stackName, updating)
  /\ answers' = Append(answers, Ok)
  /\ UNCHANGED <<inputVars, deployVars, log, outcome, logFailuresRuns>>

\* lines 243, 249-261: the create or update is rejected
SubmitError ==
  /\ pc = "submit"
  /\ \E e \in Errors("Submit") :
       /\ answers' = Append(answers, e)
       /\ Catch(e, log)
  /\ UNCHANGED <<inputVars, initialState, updating, loopVars, logFailuresRuns,
                 remoteEvents>>

\* lines 154-161 (and 194-204 without reportEvents): a poll is answered
DescribeOk ==
  /\ pc = "describe"
  /\ \E st \in Stacks(StackId) :
       /\ state' = st
       /\ IF reportEvents
          THEN /\ calls' = Append(calls, DescribeStackEventsCommand(StackId))
               /\ pc' = "events"
               /\ UNCHANGED <<deployVars, log, outcome, timeout>>
          ELSE TickEnd(st, log)
  /\ answers' = Append(answers, Ok)
  /\ UNCHANGED <<inputVars, StackId, reportEvents, waitForCleanup,
                 haveReportedFailures, reportedLogicalIds, delaySeconds,
                 caller, sleeps, stackEvents, logFailuresRuns, remoteEvents>>

\* lines 154-155: a poll fails
DescribeError ==
  /\ pc = "describe"
  /\ \E e \in Errors("Poll") :
       /\ answers' = Append(answers, e)
       /\ IF caller = "previous"
          THEN /\ pc' = "done"
               /\ outcome' = error(e)
               /\ UNCHANGED <<resultState, skipped, log, calls>>
          ELSE Catch(e, log)
  /\ UNCHANGED <<inputVars, initialState, updating, loopVars, logFailuresRuns,
                 remoteEvents>>

\* lines 161-204: the events of a tick arrive
EventsOk ==
  /\ pc = "events"
  /\ \E events \in NewerLogs(StackId) :
       LET retrieved == retrieveStackEvents(events, StackId)
           progress == reportProgress(retrieved, StackId, reportedLogicalIds)
           report == shouldReportFailures(haveReportedFailures, state)
           lines == progress.lines
                    \o (IF report THEN failureReport(retrieved, StackId)
                        ELSE <<>>)
       IN  /\ remoteEvents' = events
           /\ stackEvents' = retrieved
           /\ reportedLogicalIds' = progress.reported
           /\ haveReportedFailures' = (haveReportedFailures \/ report)
           /\ logFailuresRuns' = logFailuresRuns + (IF report THEN 1 ELSE 0)
           /\ TickEnd(state, log \o lines)
  /\ answers' = Append(answers, Ok)
  /\ UNCHANGED <<inputVars, StackId, reportEvents, waitForCleanup, state,
                 delaySeconds, caller, sleeps>>

\* lines 109-110, 161: the events of a tick cannot be fetched
EventsError ==
  /\ pc = "events"
  /\ \E e \in Errors("Poll") :
       /\ answers' = Append(answers, e)
       /\ Catch(e, log)
  /\ UNCHANGED <<inputVars, initialState, updating, loopVars, logFailuresRuns,
                 remoteEvents>>

\* lines 203-204, 153-155: the backoff timer fires
SleepDone ==
  /\ pc = "sleep"
  /\ sleeps < MaxSleeps
  /\ timeout' = timeout
  /\ sleeps' = sleeps + 1
  /\ delaySeconds' = nextDelay(delaySeconds)
  /\ calls' = Append(calls, DescribeStacksCommand(StackId))
  /\ pc' = "describe"
  /\ UNCHANGED <<inputVars, deployVars, StackId, reportEvents, waitForCleanup,
                 haveReportedFailures, reportedLogicalIds, state, caller,
                 stackEvents, log, outcome, answers, logFailuresRuns,
                 remoteEvents>>

\* lines 264-269: the events fetched after a *_FAILED result arrive
FinalEventsOk ==
  /\ pc = "finalEvents"
  /\ \E events \in NewerLogs(resultState.StackId) :
       /\ remoteEvents' = events
       /\ log' = log \o logFailures(retrieveStackEvents(events, resultState.StackId))
  /\ logFailuresRuns' = logFailuresRuns + 1
  /\ answers' = Append(answers, Ok)
  /\ pc' = "done"
  /\ outcome' = DeploymentFailed(resultState)
  /\ UNCHANGED <<inputVars, deployVars, loopVars, calls>>

\* lines 264, 279-287: the events after a *_FAILED result cannot be fetched
FinalEventsError ==
  /\ pc = "finalEvents"
  /\ \E e \in Errors("Poll") :
       /\ answers' = Append(answers, e)
       /\ pc' = "done"
       /\ outcome' = error(e)
  /\ UNCHANGED <<inputVars, deployVars, loopVars, log, calls, logFailuresRuns,
                 remoteEvents>>

Next ==
  \/ Start
  \/ LookupFound
  \/ LookupError
  \/ SubmitOk
  \/ SubmitError
  \/ DescribeOk
  \/ DescribeError
  \/ EventsOk
  \/ EventsError
  \/ SleepDone
  \/ FinalEventsOk
  \/ FinalEventsError

Spec == Init /\ [][Next]_vars

(***************************************************************************)
(* retrieveStackEvents on its own: one call, answered with any event log   *)
(* of at most MaxLogLen events of the stack                                *)
(***************************************************************************)
\* the events a log of stack sid is made of: its stack-level events, two of
\* them initial, and resource events
LogEvents(sid) ==
  { Event("web", UPDATE_IN_PROGRESS, "User Initiated", sid, "current"),
    Event("web", CREATE_IN_PROGRESS, "User Initiated", sid, "prior"),
    Event("web", UPDATE_COMPLETE, "", sid, "current"),
    Event("r1", CREATE_IN_PROGRESS, "", "p1", "current"),
    Event("r2", Code(<<"UPDATE", "FAILED">>), "Limit exceeded", "p2", "current") }

InitRetrieve ==
  /\ file \in {f \in Files : f.kind = "buffer"}
  /\ \E args \in TaskArguments :
       /\ args.stackNameOrOptions.type = "string"
       /\ stackNameOrOptions = args.stackNameOrOptions
       /\ parameters = args.parameters
  /\ pc = "retrieve"
  /\ initialState = NoStack
  /\ updating = FALSE
  /\ resultState = NoStack
  /\ skipped = FALSE
  /\ StackId = ExistingStackId
  /\ reportEvents = TRUE
  /\ waitForCleanup = FALSE
  /\ haveReportedFailures = FALSE
  /\ reportedLogicalIds = <<>>
  /\ state = NoStack
  /\ delaySeconds = InitialDelaySeconds
  /\ caller = "deployment"
  /\ sleeps = 0
  /\ timeout = 0
  /\ stackEvents = <<>>
  /\ log = <<>>
  /\ calls = <<>>
  /\ outcome = NoOutcome
  /\ answers = <<>>
  /\ logFailuresRuns = 0
  /\ remoteEvents = <<>>

\* lines 107-115: the command is sent and answered, the log cut and reversed
RetrieveStackEvents ==
  /\ pc = "retrieve"
  /\ \E events \in SeqsUpTo(LogEvents(StackId), MaxLogLen) :
       /\ remoteEvents' = events
       /\ stackEvents' = retrieveStackEvents(events, StackId)
  /\ calls' = Append(calls, DescribeStackEventsCommand(StackId))
  /\ answers' = Append(answers, Ok)
  /\ pc' = "retrieved"
  /\ UNCHANGED <<inputVars, deployVars, StackId, reportEvents, waitForCleanup,
                 haveReportedFailures, reportedLogicalIds, state, delaySeconds,
                 caller, sleeps, timeout, log, outcome, logFailuresRuns>>

NextRetrieve == RetrieveStackEvents

SpecRetrieve == InitRetrieve /\ [][NextRetrieve]_vars


(***************************************************************************)
(* One deployment of a buffered file under a stack name, every call        *)
(* answered in the end and every timer firing: the continuation of an      *)
(* await runs once its promise settles, so a step that can be taken is     *)
(* taken.  It may make MaxLiveSleeps backoff sleeps.                       *)
(***************************************************************************)
InitLive ==
  /\ InitAt(MaxSleeps - MaxLiveSleeps)
  /\ isBuffer(file)
  /\ stackNameOrOptions.type = "string"

SpecLive == InitLive /\ [][Next]_vars /\ WF_vars(Next)

(***************************************************************************)
(* Vocabulary of the properties                                            *)
(***************************************************************************)
IN_PROGRESS_SUFFIX == <<"_", "IN", "_", "PROGRESS">>
CLEANUP_IN_PROGRESS_SUFFIX == <<"_", "CLEANUP", "_", "IN", "_", "PROGRESS">>

\* the completion predicate as the specification words it
CompletionPredicate(st, wfc) ==
  \/ ~endsWith(st.StackStatus, IN_PROGRESS_SUFFIX)
  \/ ~wfc /\ endsWith(st.StackStatus, CLEANUP_IN_PROGRESS_SUFFIX)

Last(s) == s[Len(s)]

\* a tick of the running poll loop ends in this step: its status line is written
TickEnds == pc \in {"describe", "events"} /\ log' # log

\* the running poll loop returns a state to `deploy` in this step
ReturnsToPrevious == TickEnds /\ caller = "previous" /\ pc' = "submit"
ReturnsToDeployment ==
  TickEnds /\ caller = "deployment" /\ pc' \in {"done", "finalEvents"}

IsSuccess(o) == o.kind = "file" /\ o.extname = "json"
IsDeploymentFailed(o) == o.kind = "error" /\ o.err.message = "Deploying failed"

\* C1: the poll loop returns only at a tick whose fetched status satisfies the
\* completion predicate, and returns the state fetched in that tick; at a tick
\* where the predicate is false it sleeps, and after the sleep it polls again.
C1_PollLoopReturnsOnCompletion ==
  [][ /\ TickEnds =>
           IF CompletionPredicate(state', waitForCleanup)
           THEN ReturnsToPrevious \/ ReturnsToDeployment
           ELSE pc' = "sleep"
      /\ ReturnsToPrevious => initialState' = state'
      /\ ReturnsToDeployment => resultState' = state' /\ ~skipped'
      /\ (pc = "sleep" /\ pc' # "sleep") =>
           /\ pc' = "describe"
           /\ Last(calls') = DescribeStacksCommand(StackId)
           /\ Len(calls') = Len(calls) + 1 ]_vars

\* C1 witness: the wait for a previous operation returned after a sleep, with
\* the state of its last tick, whose status is not in progress
C1_Witness ==
  /\ pc = "submit"
  /\ caller = "previous"
  /\ sleeps >= 1
  /\ initialState = state
  /\ ~endsWith(state.StackStatus, IN_PROGRESS_SUFFIX)


Submissions ==
  SelectSeq(calls, LAMBDA c : c.op \in {"CreateStack", "UpdateStack"})

HasLine(line) == \E i \in 1..Len(log) : log[i] = line

\* the lookup by name was answered and the deployment went on
PastLookup ==
  /\ Len(answers) >= 1
  /\ answers[1] = Ok \/ answers[1].code = "ValidationError"

\* and the wait for a previous operation, when there was one, has returned
PastWait == PastLookup /\ (HasLine(WaitingLine) => HasLine(StartingLine))

\* C3 as stated: every deployment that gets past the lookup has, when it
\* ends, submitted exactly one operation.
C3_Original == (pc = "done" /\ PastLookup) => Len(Submissions) = 1

\* C3 amended: a deployment never submits twice; it has submitted exactly one
\* operation as soon as it is past the lookup and past the wait for a previous
\* operation, and none before or when that wait fails; the operation is an
\* Update iff an existing stack state is held, a Create iff the lookup
\* reported no stack.
C3_SubmitsOnce ==
  /\ Len(Submissions) <= 1
  /\ Len(Submissions) = 1 <=> PastWait
  /\ Len(Submissions) = 1 =>
       /\ Submissions[1].op = "UpdateStack" <=> initialState # NoStack
       /\ Submissions[1].op = "CreateStack" <=> answers[1] # Ok
       /\ Submissions[1].op = "UpdateStack" <=> updating

\* C3 witness: an Update submitted after the wait for a previous operation
C3_Witness ==
  /\ pc = "done"
  /\ HasLine(StartingLine)
  /\ Len(Submissions) = 1
  /\ Submissions[1].op = "UpdateStack"

NotFound == ValidationError("Stack with id web does not exist")

\* C4 as stated: a not-found answer to the lookup is followed by a Create;
\* any other error of the lookup ends the deployment with that error, no
\* other command being sent.
C4_Original ==
  Len(answers) >= 1 =>
    /\ answers[1] = NotFound =>
         Len(calls) >= 2 /\ calls[2].op = "CreateStack"
    /\ answers[1] \notin {Ok, NotFound} =>
         pc = "done" /\ outcome = error(answers[1]) /\ Len(calls) = 1

\* C5: an Update answered with the ValidationError "No updates are to be
\* performed." is the last command of the deployment, which ends with a
\* success whose outputs are those of the state held before the update.
C5_NoOpUpdate ==
  \A i \in 1..Len(answers) :
    ( /\ calls[i].op = "UpdateStack"
      /\ answers[i] = ValidationError(NoUpdatesMessage) )
    => /\ i = Len(calls)
       /\ pc = "done"
       /\ IsSuccess(outcome)
       /\ outcome.data = fromPairs(initialState.Outputs)

\* C5 witness: such a deployment whose stack has the outputs Foo and Bar
C5_Witness ==
  /\ pc = "done"
  /\ Len(calls) >= 2
  /\ Last(calls).op = "UpdateStack"
  /\ Last(answers) = ValidationError(NoUpdatesMessage)
  /\ initialState.Outputs = << <<"Foo", "1">>, <<"Bar", "2">> >>
  /\ outcome.data = [k \in {"Foo", "Bar"} |-> IF k = "Foo" THEN "1" ELSE "2"]


\* a successful completion as the specification words it
SuccessfulCompletion(st) ==
  /\ startsWith(st.StackStatus, <<"CREATE">>) \/ startsWith(st.StackStatus, <<"UPDATE">>)
  /\ includes(st.StackStatus, <<"COMPLETE">>)
  /\ ~includes(st.StackStatus, <<"ROLLBACK">>)

\* the DeploymentFailed error of a final state: the stack name, and the
\* status reason or, without one, the status
DeploymentFailedFor(st) ==
  [kind |-> "error", plugin |-> "cf-deploy",
   err |-> [message |-> "Deploying failed", stack |-> stackName,
            detail |-> IF st.StackStatusReason = "" THEN st.StackStatus
                       ELSE <<st.StackStatusReason>>]]

\* C6 as stated: a success is delivered only for a final state that is a
\* successful completion, and every other final state, polled or adopted from
\* the existing stack, raises DeploymentFailed.
C6_Original ==
  (pc = "done" /\ resultState # NoStack) =>
    /\ IsSuccess(outcome) => SuccessfulCompletion(resultState)
    /\ ( /\ ~SuccessfulCompletion(resultState)
         /\ Last(answers) = Ok \/ skipped )
       => outcome = DeploymentFailedFor(resultState)

\* C6 amended: a final state returned by polling gives a success iff it is a
\* successful completion, and otherwise DeploymentFailed with the stack name
\* and the reason or status; a final state adopted from the existing stack in
\* the no-op-update case gives a success whatever its status.
C6_OutcomeOfFinalState ==
  (pc = "done" /\ resultState # NoStack) =>
    /\ IsSuccess(outcome) => skipped \/ SuccessfulCompletion(resultState)
    /\ skipped => IsSuccess(outcome) /\ resultState = initialState
    /\ (~skipped /\ SuccessfulCompletion(resultState)) => IsSuccess(outcome)
    /\ ( /\ ~skipped
         /\ ~SuccessfulCompletion(resultState)
         /\ Last(answers) = Ok )
       => outcome = DeploymentFailedFor(resultState)

\* C6 witness: DeploymentFailed for a polled UPDATE_ROLLBACK_COMPLETE that
\* carries a reason
C6_Witness ==
  /\ pc = "done"
  /\ ~skipped
  /\ resultState.StackStatus = UPDATE_ROLLBACK_COMPLETE
  /\ resultState.StackStatusReason # ""
  /\ outcome = DeploymentFailedFor(resultState)

IndicatesFailure(st) ==
  \/ includes(st.StackStatus, <<"ROLLBACK">>)
  \/ includes(st.StackStatus, <<"DELETE">>)
  \/ includes(st.StackStatus, <<"FAILED">>)

HasUrl(lg) == \E i \in 1..Len(lg) : lg[i].kind = "url"

\* C7 as stated: every DeploymentFailed is preceded by a logFailures pass.
C7_Original == IsDeploymentFailed(outcome) => logFailuresRuns >= 1

\* C7 amended: a DeploymentFailed for a final status that holds ROLLBACK,
\* DELETE or FAILED is preceded by a logFailures pass and the console line.
C7_FailuresLoggedBeforeRaise ==
  (IsDeploymentFailed(outcome) /\ IndicatesFailure(resultState)) =>
    logFailuresRuns >= 1 /\ HasUrl(log)

\* C7 witness: DeploymentFailed on ROLLBACK_COMPLETE after one pass
C7_Witness ==
  /\ IsDeploymentFailed(outcome)
  /\ resultState.StackStatus = Code(<<"ROLLBACK", "COMPLETE">>)
  /\ logFailuresRuns = 1

CountKind(lg, k) == Len(SelectSeq(lg, LAMBDA l : l.kind = k))

\* the status lines written after line i of the log
StatusLinesAfter(i) == CountKind(SubSeq(log, i + 1, Len(log)), "status")

\* C8: the poll loop that reports events writes the failure report (the
\* logFailures pass and the console line) at most once; the only other
\* logFailures pass of a deployment is the one after a *_FAILED result.
C8_FailureReportOnce ==
  /\ CountKind(log, "url") <= 1
  /\ CountKind(log, "url") = 1 <=> haveReportedFailures
  /\ logFailuresRuns <=
       CountKind(log, "url")
       + (IF /\ pc = "done"
             /\ IsDeploymentFailed(outcome)
             /\ endsWith(resultState.StackStatus, <<"_", "FAILED">>)
          THEN 1 ELSE 0)

\* C8 witness: the report was written in one tick, and a later tick observed
\* a status that indicates failure too
C8_Witness ==
  /\ caller = "deployment"
  /\ IndicatesFailure(state)
  /\ Len(log) >= 1
  /\ Last(log).kind = "status"
  /\ \E i \in 1..Len(log) : log[i].kind = "url" /\ StatusLinesAfter(i) >= 2

\* the events of a tick of the reporting loop arrive in this step
TickReported == pc = "events" /\ log' # log

\* C9: in a tick whose status indicates failure the report is in the log
\* before the tick's status line, written in that tick when no earlier tick
\* wrote it, so before any sleep that follows; no other tick writes one.
C9_FailureReportedAtFirstSight ==
  [][ TickReported =>
        /\ Last(log').kind = "status"
        /\ IndicatesFailure(state) =>
             \E i \in 1..(Len(log') - 1) :
               /\ log'[i].kind = "url"
               /\ ~HasUrl(log) => i > Len(log)
        /\ ~IndicatesFailure(state) => (HasUrl(log') <=> HasUrl(log)) ]_vars

\* C9 witness: the report is in the log while the loop sleeps, the rollback
\* still in progress
C9_Witness ==
  /\ pc = "sleep"
  /\ caller = "deployment"
  /\ IndicatesFailure(state)
  /\ endsWith(state.StackStatus, IN_PROGRESS_SUFFIX)
  /\ HasUrl(log)

IsPrefix(s, t) == Len(s) <= Len(t) /\ SubSeq(t, 1, Len(s)) = s

\* C10: at most one progress line per logical resource id; the list of
\* reported ids holds no id twice and every id a progress line was written
\* for; it is empty when a loop starts and only grows while the loop runs.
C10_OneProgressLinePerResource ==
  /\ [](/\ \A i, j \in 1..Len(log) :
             ( /\ log[i].kind = "progress"
               /\ log[j].kind = "progress"
               /\ log[i].id = log[j].id ) => i = j
        /\ \A i, j \in 1..Len(reportedLogicalIds) :
             reportedLogicalIds[i] = reportedLogicalIds[j] => i = j
        /\ \A i \in 1..Len(log) :
             log[i].kind = "progress" =>
               \E j \in 1..Len(reportedLogicalIds) :
                 reportedLogicalIds[j] = log[i].id
        /\ (pc = "describe" /\ state = NoStack) => reportedLogicalIds = <<>>)
  /\ [][caller' = caller => IsPrefix(reportedLogicalIds, reportedLogicalIds')]_vars

\* C10 witness: a progress line was written for a resource, and two later
\* ticks have fetched the log that holds its event
C10_Witness ==
  \E i \in 1..Len(log) :
    /\ log[i].kind = "progress"
    /\ StatusLinesAfter(i) >= 3
    /\ \E k \in 1..Len(remoteEvents) :
         remoteEvents[k].LogicalResourceId = log[i].id

\* the index of the first line of the log equal to line, 0 when there is none
IndexOf(line) ==
  IF HasLine(line) THEN CHOOSE i \in 1..Len(log) : log[i] = line /\
                          \A j \in 1..(i - 1) : log[j] # line
  ELSE 0

\* C11: while the deployment waits out a previous operation no event query is
\* sent, and the lines it writes from "waiting for previous operation" up to
\* "starting deployment" are status lines only: no progress line, no failure
\* line, no console line.
C11_SilentWaitForPrevious ==
  /\ caller = "previous" =>
       /\ ~reportEvents
       /\ pc # "events"
       /\ \A i \in 1..Len(calls) :
            calls[i].op = "DescribeStackEvents" => HasLine(StartingLine)
  /\ HasLine(WaitingLine) =>
       /\ IndexOf(WaitingLine) = 1
       /\ \A i \in 2..Len(log) :
            (IndexOf(StartingLine) = 0 \/ i < IndexOf(StartingLine))
              => log[i].kind = "status"
  /\ \A i \in 1..Len(calls) :
       calls[i].op = "DescribeStackEvents" =>
         \E j \in 1..(i - 1) : calls[j].op \in {"CreateStack", "UpdateStack"}

\* C11 witness: the wait slept twice and returned, three status lines and
\* nothing else between its two lines, three polls and no event query sent
C11_Witness ==
  /\ pc = "submit"
  /\ caller = "previous"
  /\ sleeps >= 2
  /\ IndexOf(StartingLine) = 5
  /\ Len(calls) = 5

\* a tick of the running loop ends with a setTimeout in this step
ArmsTimer == pc # "sleep" /\ pc' = "sleep"

\* C12: the first wait of a poll loop is 2 seconds, each later one
\* min(2 * the wait before, 15) seconds, so the waits of a loop never
\* decrease and never exceed 15; the delay the status line of a tick
\* announces is the delay of the timer set after it.
C12_Backoff ==
  [][ /\ ArmsTimer =>
           /\ timeout' = IF timeout = 0 THEN 2
                         ELSE IF 2 * timeout <= 15 THEN 2 * timeout ELSE 15
           /\ timeout' >= timeout
           /\ timeout' <= 15
           /\ Last(log').kind = "status"
           /\ Last(log').next = timeout'
      /\ ~ArmsTimer => timeout' = timeout \/ (caller' # caller /\ timeout' = 0)
      /\ (pc' = "describe" /\ pc \in {"lookup", "submit"}) => timeout' = 0 ]_vars

\* C12 witness: a loop that has waited 2, 4, 8 and 15 seconds sets its timer
\* to 15 seconds again
C12_Witness ==
  /\ pc = "sleep"
  /\ sleeps = 4
  /\ caller = "deployment"
  /\ ~HasLine(WaitingLine)
  /\ timeout = 15
  /\ Last(log) = [kind |-> "status", next |-> 15]

\* the options object the caller passed, empty when a name or nothing was
CallerOptions ==
  IF stackNameOrOptions.type = "object" THEN stackNameOrOptions.options
  ELSE <<>>

Has(obj, key) == key \in DOMAIN obj

\* the string form of the values the parameter hashes hold
StringForm(v) ==
  IF v.type = "string" THEN v.value
  ELSE CASE v.value = 1 -> "1"
         [] v.value = 123 -> "123"

\* the caller's parameter list followed by one entry per key of the hash
MergedParameters ==
  (IF Has(CallerOptions, "Parameters") THEN CallerOptions["Parameters"] ELSE <<>>)
  \o [i \in 1..Len(parameters) |->
        [ParameterKey |-> parameters[i][1],
         ParameterValue |-> StringForm(parameters[i][2])]]

\* C13: a Create carries the caller's OnFailure when the caller's options
\* have one and DELETE otherwise; an Update carries an OnFailure only when the
\* caller's options have one; both carry the merged parameter list and the
\* file's content, whatever Parameters and TemplateBody the caller passed.
C13_Payload ==
  \A i \in 1..Len(calls) :
    calls[i].op \in {"CreateStack", "UpdateStack"} =>
      LET input == calls[i].input
      IN  /\ calls[i].op = "CreateStack" =>
               /\ Has(input, "OnFailure")
               /\ input["OnFailure"] =
                    IF Has(CallerOptions, "OnFailure")
                    THEN CallerOptions["OnFailure"] ELSE "DELETE"
          /\ calls[i].op = "UpdateStack" =>
               /\ Has(input, "OnFailure") <=> Has(CallerOptions, "OnFailure")
               /\ Has(input, "OnFailure") =>
                    input["OnFailure"] = CallerOptions["OnFailure"]
          /\ Has(input, "Parameters")
          /\ input["Parameters"] = MergedParameters
          /\ Has(input, "TemplateBody")
          /\ input["TemplateBody"] = file.contents.text

\* C13 witness: a Create whose caller passed OnFailure ROLLBACK, a parameter
\* list and a stale TemplateBody, with a hash of a number and a string
C13_Witness ==
  /\ Len(Submissions) = 1
  /\ Submissions[1].op = "CreateStack"
  /\ Has(CallerOptions, "TemplateBody")
  /\ CallerOptions["TemplateBody"] # file.contents.text
  /\ Submissions[1].input["OnFailure"] = "ROLLBACK"
  /\ Submissions[1].input["Parameters"] =
       << [ParameterKey |-> "X", ParameterValue |-> "9"],
          [ParameterKey |-> "A", ParameterValue |-> "1"],
          [ParameterKey |-> "B", ParameterValue |-> "2"] >>

ROLLBACK_IN_PROGRESS == <<"ROLLBACK", "_", "IN", "_", "PROGRESS">>
ROLLBACK_COMPLETE == <<"ROLLBACK", "_", "COMPLETE">>

\* the deployment is a creation: the lookup reported no stack and a Create
\* was submitted and accepted
CreationPolled ==
  /\ caller = "deployment"
  /\ ~updating
  /\ answers[1] = NotFound
  /\ Len(Submissions) = 1
  /\ Submissions[1].op = "CreateStack"

\* the scenario: a creation whose polls and event queries are all answered
\* and whose last polled status is s
CreationPolledAt(s) ==
  /\ CreationPolled
  /\ pc \in {"sleep", "done"}
  /\ Last(answers) = Ok
  /\ state.StackStatus = s

\* C14 as stated: a creation polled ROLLBACK_COMPLETE ends with
\* DeploymentFailed that names ROLLBACK_COMPLETE.
C14_Original ==
  CreationPolledAt(ROLLBACK_COMPLETE) =>
    /\ pc = "done"
    /\ outcome.kind = "error"
    /\ outcome.err = [message |-> "Deploying failed", stack |-> stackName,
                      detail |-> ROLLBACK_COMPLETE]

\* C14 amended: in a creation, as long as the polled status is
\* ROLLBACK_IN_PROGRESS the failure events have been logged exactly once, and
\* when the polled status is ROLLBACK_COMPLETE the deployment ends with
\* DeploymentFailed that names ROLLBACK_COMPLETE when the polled state has no
\* status reason and the reason when it has one, the failure events still
\* logged exactly once.
C14_CreationRollback ==
  /\ CreationPolledAt(ROLLBACK_IN_PROGRESS) =>
       /\ pc = "sleep"
       /\ logFailuresRuns = 1
       /\ CountKind(log, "url") = 1
       /\ outcome = NoOutcome
  /\ CreationPolledAt(ROLLBACK_COMPLETE) =>
       /\ pc = "done"
       /\ resultState = state
       /\ outcome.kind = "error"
       /\ outcome.err =
            [message |-> "Deploying failed", stack |-> stackName,
             detail |-> IF state.StackStatusReason = "" THEN ROLLBACK_COMPLETE
                        ELSE <<state.StackStatusReason>>]
       /\ logFailuresRuns = 1
       /\ CountKind(log, "url") = 1
       /\ Last(calls).op = "DescribeStackEvents"

\* C14 witness: a creation polled in progress without a sign of failure, then
\* in progress with the failure report written, then again, then
\* ROLLBACK_COMPLETE: the statuses CREATE_IN_PROGRESS, ROLLBACK_IN_PROGRESS,
\* ROLLBACK_IN_PROGRESS, ROLLBACK_COMPLETE
C14_Witness ==
  /\ CreationPolled
  /\ pc = "done"
  /\ resultState.StackStatus = ROLLBACK_COMPLETE
  /\ resultState.StackStatusReason = ""
  /\ IsDeploymentFailed(outcome)
  /\ outcome.err.detail = ROLLBACK_COMPLETE
  /\ sleeps = 3
  /\ Len(log) >= 6
  /\ log[1] = CreatingLine
  /\ log[2] = [kind |-> "status", next |-> 2]
  /\ log[Len(log) - 2] = [kind |-> "status", next |-> 4]
  /\ log[Len(log) - 1] = [kind |-> "status", next |-> 8]
  /\ Last(log) = [kind |-> "status", next |-> 0]
  /\ HasUrl(log)
  /\ \E i \in 1..Len(log) : log[i].kind = "failure"

\* the explicitly given StackName when there is one, else the file's stem
ResolvedName ==
  IF stackNameOrOptions.type = "string" THEN stackNameOrOptions.StackName
  ELSE IF Has(CallerOptions, "StackName") THEN CallerOptions["StackName"]
  ELSE file.stem

\* C15 as stated: for every form of the argument the lookup is keyed by the
\* given StackName or else the file's stem, and the submitted payload carries
\* that name.
C15_Original ==
  /\ Len(calls) >= 1 => calls[1] = DescribeStacksCommand(ResolvedName)
  /\ \A i \in 1..Len(calls) :
       calls[i].op \in {"CreateStack", "UpdateStack"} =>
         /\ Has(calls[i].input, "StackName")
         /\ calls[i].input["StackName"] = ResolvedName

\* C16: while the deployment polls a stack the lookup found in progress it
\* has submitted nothing; the Update it submits for a stack the lookup found
\* follows a poll that saw the stack with a status that does not end in
\* _IN_PROGRESS (a cleanup phase ends in it too), and that polled state is
\* the one the deployment holds when it submits.
C16_SubmitsAfterPreviousOperation ==
  /\ (caller = "previous" /\ pc \in {"describe", "sleep"}) =>
       /\ Len(Submissions) = 0
       /\ pc = "sleep" => endsWith(state.StackStatus, IN_PROGRESS_SUFFIX)
  /\ (Len(Submissions) >= 1 /\ answers[1] = Ok) =>
       /\ Submissions[1].op = "UpdateStack"
       /\ ~endsWith(initialState.StackStatus, IN_PROGRESS_SUFFIX)
  /\ (Len(Submissions) >= 1 /\ HasLine(WaitingLine)) =>
       /\ HasLine(StartingLine)
       /\ Len(answers) >= 2
       /\ answers[2] = Ok
       /\ calls[2] = DescribeStacksCommand(initialState.StackId)
       /\ CountKind(log, "status") >= 1
  /\ (pc = "submit" /\ caller = "previous") =>
       /\ initialState = state
       /\ Last(calls).op = "UpdateStack"
       /\ calls[Len(calls) - 1] = DescribeStacksCommand(state.StackId)

\* C16 witness: the Update was submitted after the wait had slept twice, for
\* a stack polled UPDATE_COMPLETE at last
C16_Witness ==
  /\ HasLine(WaitingLine)
  /\ pc = "describe"
  /\ caller = "deployment"
  /\ sleeps >= 2
  /\ updating
  /\ initialState.StackStatus = UPDATE_COMPLETE
  /\ Last(calls) = DescribeStacksCommand(ExistingStackId)
  /\ calls[Len(calls) - 1].op = "UpdateStack"

\* the fetched log holds an event of the operation under observation for
\* resource lid
CurrentEventOf(lid) ==
  \E k \in 1..Len(remoteEvents) :
    /\ remoteEvents[k].Operation = "current"
    /\ remoteEvents[k].LogicalResourceId = lid

\* C17 as stated: whatever log the remote service returns, every progress
\* line and failure line written and every id in the list of reported ids is
\* that of an event of the operation under observation.
C17_Original ==
  /\ \A i \in 1..Len(reportedLogicalIds) : CurrentEventOf(reportedLogicalIds[i])
  /\ \A i \in 1..Len(log) :
       log[i].kind \in {"progress", "failure"} => CurrentEventOf(log[i].id)

\* an anchor: a stack-level event that starts an operation
IsAnchor(e, sid) ==
  /\ e.PhysicalResourceId = sid
  /\ e.ResourceStatus \in {CREATE_IN_PROGRESS, UPDATE_IN_PROGRESS}

\* the number of events of a newest-first log that are newer than its newest
\* anchor: all of them when it has none
NewerThanAnchor(events, sid) ==
  IF \E i \in 1..Len(events) : IsAnchor(events[i], sid)
  THEN (CHOOSE i \in 1..Len(events) :
          /\ IsAnchor(events[i], sid)
          /\ \A j \in 1..(i - 1) : ~IsAnchor(events[j], sid)) - 1
  ELSE Len(events)

\* C18: retrieveStackEvents returns the events of the log that are newer than
\* its newest anchor, neither the anchor nor anything older, oldest first.
C18_RetrieveStackEvents ==
  pc = "retrieved" =>
    LET n == NewerThanAnchor(remoteEvents, StackId)
    IN  /\ Len(stackEvents) = n
        /\ \A j \in 1..n : stackEvents[j] = remoteEvents[n + 1 - j]

\* C18 witness: a log of two events of the new operation, its anchor, and an
\* older anchor is cut to the two events, oldest first
C18_Witness ==
  /\ pc = "retrieved"
  /\ Len(remoteEvents) = 4
  /\ ~IsAnchor(remoteEvents[1], StackId)
  /\ ~IsAnchor(remoteEvents[2], StackId)
  /\ remoteEvents[1] # remoteEvents[2]
  /\ IsAnchor(remoteEvents[3], StackId)
  /\ IsAnchor(remoteEvents[4], StackId)
  /\ stackEvents = <<remoteEvents[2], remoteEvents[1]>>

IsQuery(c) == c.op \in {"DescribeStacks", "DescribeStackEvents"}

\* C19: the first command is the lookup by name; every later status or event
\* query is keyed by a stack identifier and never by the name: before the
\* Create or Update by the identifier the lookup answered, after it by the
\* identifier the Create or Update answered, the same on every tick of a loop
\* and in the event query after a *_FAILED result.
C19_QueriesKeyedByStackId ==
  /\ Len(calls) >= 1 => calls[1] = [op |-> "DescribeStacks", StackName |-> stackName]
  /\ \A i \in 2..Len(calls) :
       IsQuery(calls[i]) =>
         /\ calls[i].StackName # stackName
         /\ calls[i].StackName =
              IF \E j \in 2..(i - 1) : calls[j].op = "CreateStack"
              THEN CreatedStackId ELSE ExistingStackId
  /\ (Len(calls) >= 2 /\ answers # <<>> /\ answers[1] = Ok) =>
       initialState.StackId = ExistingStackId
  /\ pc \in {"describe", "events", "sleep"} =>
       /\ StackId \in {ExistingStackId, CreatedStackId}
       /\ IsQuery(Last(calls)) => Last(calls).StackName = StackId
       /\ state # NoStack => state.StackId = StackId

\* C19 witness: a deployment that waited for a previous operation, polled
\* its Update and fetched the events after a *_FAILED result
C19_Witness ==
  /\ pc = "done"
  /\ HasLine(StartingLine)
  /\ sleeps >= 2
  /\ endsWith(resultState.StackStatus, <<"_", "FAILED">>)
  /\ Last(answers) = Ok
  /\ Last(calls) = [op |-> "DescribeStackEvents", StackName |-> ExistingStackId]
  /\ IsDeploymentFailed(outcome)

\* the two benign errors: not-found answered to the lookup by name, and
\* "No updates are to be performed." answered to an Update
Benign(i) ==
  \/ i = 1 /\ answers[i] = NotFound
  \/ calls[i].op = "UpdateStack" /\ answers[i] = ValidationError(NoUpdatesMessage)

\* C20 as stated: a command answered with an error that is not benign is the
\* last command of the deployment, which ends with a failure.
C20_Original ==
  \A i \in 1..Len(answers) :
    (answers[i] # Ok /\ ~Benign(i)) =>
      /\ i = Len(calls)
      /\ pc = "done"
      /\ outcome.kind = "error"

\* C21 as stated: only an Update answered with the ValidationError "No
\* updates are to be performed." is turned into a success; any other error
\* answered to a Create, an Update, or a poll or event query after the
\* submission ends the deployment with a failure.
C21_Original ==
  \A i \in 2..Len(answers) :
    ( /\ answers[i] # Ok
      /\ ~( /\ calls[i].op = "UpdateStack"
            /\ answers[i] = ValidationError(NoUpdatesMessage) ) )
    => /\ pc = "done"
       /\ outcome.kind = "error"
       /\ ~skipped

\* the handler has run its first segment
Started == pc # "start" /\ pc # "retrieve"

\* C22 as stated: a file whose content is not a buffer ends the deployment
\* with the error, no command sent.
C22_Original ==
  (Started /\ file.kind # "buffer") =>
    /\ pc = "done"
    /\ outcome.kind = "error"
    /\ calls = <<>>

\* C22 amended: a file whose content is not a buffer ends the deployment
\* with no command sent and no line written; a stream raises the error
\* "Can only handle buffered files ...", a null file is passed on as it is,
\* without an error; a buffered file is looked up.
C22_NoRemoteCallWithoutBuffer ==
  Started =>
    /\ file.kind # "buffer" =>
         /\ pc = "done"
         /\ calls = <<>>
         /\ answers = <<>>
         /\ log = <<>>
    /\ file.kind = "stream" =>
         outcome =
           [kind |-> "error", plugin |-> "cf-deploy",
            err |-> [message |-> "Can only handle buffered files, pipe through vinyl-buffer beforehand"]]
    /\ file.kind = "null" => outcome.kind = "file" /\ outcome.extname = ""
    /\ file.kind = "buffer" => Len(calls) >= 1 /\ calls[1].op = "DescribeStacks"

\* C22 witness: a stream has ended the deployment with the error
C22_Witness ==
  /\ file.kind = "stream"
  /\ pc = "done"
  /\ outcome.kind = "error"
  /\ calls = <<>>

\* no call has failed but with one of the two benign errors
NoCallFailed == \A i \in 1..Len(answers) : answers[i] = Ok \/ Benign(i)

\* the model's budget of sleeps is used up with the stack still in progress
StillInProgressAtBound ==
  /\ pc = "sleep"
  /\ sleeps = MaxSleeps
  /\ ~CompletionPredicate(state, waitForCleanup)

\* a poll, or the event query of its tick, is answered in this step
TickAnswered == pc \in {"describe", "events"} /\ Last(answers') = Ok /\ log' # log

\* C23: a deployment ends with a result unless the remote service reports
\* an in-progress status for as long as it is polled; the result is
\* delivered once, and with no call failed it is a success or
\* DeploymentFailed.  A tick that sees an in-progress status never ends the
\* deployment: it sets the timer, and when the timer fires the loop polls
\* again, however many times it has.
C23_DeliversOrKeepsPolling ==
  /\ <>(pc = "done" \/ StillInProgressAtBound)
  /\ [](pc = "done" <=> outcome # NoOutcome)
  /\ []((pc = "done" /\ NoCallFailed) =>
          IsSuccess(outcome) \/ IsDeploymentFailed(outcome))
  /\ [][outcome # NoOutcome => outcome' = outcome]_vars
  /\ [][ (TickAnswered /\ ~CompletionPredicate(state', waitForCleanup)) =>
           /\ pc' = "sleep"
           /\ outcome' = NoOutcome ]_vars
  /\ [][ (TickAnswered /\ CompletionPredicate(state', waitForCleanup)) =>
           pc' \in {"submit", "finalEvents", "done"} ]_vars
  /\ [][pc = "sleep" => pc' = "describe" /\ Len(calls') = Len(calls) + 1]_vars

\* C23 witness: a result delivered after every sleep of the budget, one in
\* the wait for a previous operation, no call failed
C23_Witness ==
  /\ pc = "done"
  /\ sleeps = MaxSleeps
  /\ HasLine(StartingLine)
  /\ timeout # 0
  /\ NoCallFailed
  /\ IsSuccess(outcome)

====
